---- MODULE Spec2Model ----
(***************************************************************************)
(* Model of the GKE deployment pipeline of src/lib/gke-deploy.js, of the   *)
(* tool handlers of src/tools.js that call it, local and remote, of the    *)
(* registration of the tools in src/mcp-server.js and of getCluster of     *)
(* src/lib/gke-clusters.js.                                                *)
(*                                                                         *)
(* Every invocation of deploy() is a process whose position (pc) is the    *)
(* await it is suspended on.  One action resumes an invocation from one    *)
(* await: it takes the outcome of the awaited remote call from the         *)
(* environment, runs the synchronous code up to the next await and issues  *)
(* the call that await waits for.  Strings built by template literals are  *)
(* sequences of their parts.                                               *)
(***************************************************************************)
EXTENDS Naturals, Sequences, FiniteSets, TLC

(* ---------------------------- bounds ----------------------------------- *)

\* At most this many of the required APIs start out disabled in a project.
MaxDisabled == 1

\* The invocations of deploy() the model follows: "a" is called first, "b"
\* after "a" has ended (Spec) or at any moment after the call of "a"
\* (SpecConcurrent); the slots of the tool handlers (SpecEntry, SpecRemote).
Invs == {"a", "b"}

Projects == {"p1", "p2"}
ServiceNames == {"app"}
Regions == {"europe-west1"}
ClusterIds == {"default-cluster"}
Details == {"d1"}
Addresses == {"", "198.51.100.7"}
FileLists == {<< <<"i", "n", "d", "e", "x", ".", "j", "s">> >>}
Callbacks == {"absent", "present"}

\* Progress callbacks that throw: on every event, or on the event
\* 'Deployment failed: ...' only.
RaisingCallbacks == {"raises", "raisesOnFailure"}

\* The inline content of a file: none, or some text.
Contents == {<<>>, <<"c">>}

(* ------------------------- configuration ------------------------------- *)

REPO_NAME == "mcp-gke-deployments"
ZIP_FILE_NAME == "source.zip"
IMAGE_TAG == "latest"
REQUIRED_APIS ==
  << "iam.googleapis.com",
     "storage.googleapis.com",
     "cloudbuild.googleapis.com",
     "artifactregistry.googleapis.com",
     "container.googleapis.com" >>

\* error.code === 5 is the gRPC status NOT_FOUND; a call can fail with another one (7, PERMISSION_DENIED).
NOT_FOUND == 5
OtherCodes == {7}

VARIABLES
  pc,          \* per invocation: the await it is suspended on
  req,         \* per invocation: the argument object of deploy()
  apiIdx,      \* per invocation: position of ensureApisEnabled's loop
  op,          \* per invocation: the long-running operation awaited
  calls,       \* per invocation: the remote calls issued, in order
  events,      \* per invocation: the messages passed to logAndProgress
  cause,       \* per invocation: the error the failing remote call gave
  raised,      \* per invocation: the error that reached deploy's catch
  error,       \* per invocation: the error deploy() rejected with
  result,      \* per invocation: the value deploy() resolved with
  before,      \* per invocation: the remote state deploy() was called in
  storage, cloudBuildClient, artifactRegistryClient, containerClient,
               \* the module-level client handles
  apiState,    \* remote: state of each API of each project
  buckets,     \* remote: the storage buckets that exist
  objects,     \* remote: per bucket, who uploaded source.zip last
  repos,       \* remote: the Artifact Registry repositories that exist
  images,      \* remote: the images built and pushed
  kubeContext, \* the cluster kubectl's current context points at
  tool,        \* per invocation: the tool handler that runs in this slot
  cancelled,   \* per invocation: the caller has given the request up
  server       \* the MCP server: the tools it has registered, and for whom

invVars == <<pc, req, apiIdx, op, calls, events, cause, raised, error, result, before>>
clientVars == <<storage, cloudBuildClient, artifactRegistryClient, containerClient>>
remoteVars == <<apiState, buckets, objects, repos, images>>
toolVars == <<tool, cancelled, server>>
vars == <<invVars, clientVars, remoteVars, kubeContext, toolVars>>

None == "none"
Undefined == "undefined"

Range(s) == {s[n] : n \in 1..Len(s)}

(* ------------------------------ errors --------------------------------- *)

\* new Error(message)
Error(message) == [message |-> message, code |-> 0]

NoError == [message |-> <<>>, code |-> 0]

\* The error a rejected client-library call carries: the remote detail is
\* its message, code the gRPC status.
RemoteError(code, detail) == [message |-> <<detail>>, code |-> code]

\* The error of a promisified child_process.exec whose command failed.
ExecError(cmd, detail) ==
  [message |-> <<"Command failed: ">> \o cmd \o <<"\n", detail>>, code |-> 1]

\* The error a throwing progress callback throws.
CallbackError == Error(<<"progress callback failed">>)

\* Calling toLowerCase on a value that is not a string.
TypeError == Error(<<"file.toLowerCase is not a function">>)

(* --------------------------- logAndProgress ---------------------------- *)

ProgressEvent(severity, message) == [level |-> severity, data |-> message]

\* progressCallback({level, data}) throws: nothing around the call catches.
Raises(i, ev) ==
  \/ req[i].progressCallback = "raises"
  \/ req[i].progressCallback = "raisesOnFailure" /\ ev.data[1] = "Deployment failed: "

\* The events the invocation has passed to logAndProgress, followed by es.
logAndProgress(i, es) == events' = [events EXCEPT ![i] = @ \o es]

NoResult == [name |-> None, url |-> <<>>]

NoContext == [projectId |-> None, region |-> None, clusterId |-> None]

\* What the progress callback of the invocation has received.
Delivered(i) ==
  IF pc[i] # "idle" /\ req[i].progressCallback # "absent" THEN events[i] ELSE <<>>

(* ------------------------------ requests ------------------------------- *)

\* The value of the files argument of a tool: an array, or something else.
Array(items) == [isArray |-> TRUE, items |-> items]

NotArray == [isArray |-> FALSE, items |-> <<>>]

\* What the tools are called with; a missing argument is Undefined.
ToolArgs(fileArgs) ==
  [project : Projects \cup {Undefined}, region : Regions,
   cluster : ClusterIds \cup {Undefined}, service : ServiceNames,
   files : fileArgs]

NoArgs ==
  [project |-> None, region |-> None, cluster |-> None, service |-> None,
   files |-> NotArray]

\* No tool handler runs in the slot.  Of a handler that runs: name and args
\* are the tool and its arguments, state where it is ("awaiting" getCluster
\* or deploy, "returned", "thrown"), reply the error client.getCluster
\* settled with, value what getCluster returned to the handler, caught the
\* error the handler caught, text the text of the content it returned,
\* thrown the error it threw, project the project the handler has passed
\* to listClusters, getCluster or deploy.
NoTool ==
  [name |-> None, args |-> NoArgs, state |-> "idle", reply |-> NoError,
   value |-> None, caught |-> NoError, text |-> <<>>, thrown |-> NoError,
   project |-> None]

\* No MCP server runs: deploy is called as a library.  Of a server that
\* has started: mode is "local" (registerTools), "remote"
\* (registerToolsRemote) or "failed" (registerToolsRemote has thrown), and
\* currentProject the project the remote tools were registered for.
NoServer == [mode |-> None, currentProject |-> None]

\* What checkGCP() resolves to: nothing off Google Cloud, else what the
\* metadata server has told, the project among it or not.
GcpInfos ==
  {[onGcp |-> FALSE, project |-> Undefined]} \cup
  {[onGcp |-> TRUE, project |-> p] : p \in Projects \cup {Undefined}}

\* The entries of a file list: a string (a path) or an object with the
\* name and the content of a file.
String(chars) == [type |-> "string", chars |-> chars]

FileObject(filename, content) ==
  [type |-> "object", filename |-> filename, content |-> content]

\* The array of the paths.
Paths(list) == [n \in 1..Len(list) |-> String(list[n])]

\* The arrays of file objects that name the paths, each with some content.
InlineFileLists ==
  UNION {{[n \in 1..Len(list) |-> FileObject(list[n], c)] : c \in Contents} :
         list \in FileLists}

\* The argument objects deploy() is called with; serviceName, region and
\* clusterId have the defaults of the signature.
Requests ==
  {[projectId |-> p, serviceName |-> n, region |-> l, clusterId |-> k,
    files |-> Paths(list), progressCallback |-> cb] :
     p \in Projects, n \in ServiceNames, l \in Regions, k \in ClusterIds,
     list \in FileLists, cb \in Callbacks}

NoRequest ==
  [projectId |-> None, serviceName |-> None, region |-> None,
   clusterId |-> None, files |-> <<>>, progressCallback |-> "absent"]

(* --------------------------- names and calls --------------------------- *)

\* `${projectId}-${REPO_NAME}`
bucketName(projectId) == <<projectId, "-", REPO_NAME>>

\* `${serviceName}-repo`
repoName(serviceName) == <<serviceName, "-repo">>

\* `projects/${projectId}/services/${api}`
serviceResource(projectId, api) == <<"projects/", projectId, "/services/", api>>

\* `${parent}/clusters/${clusterId}`, parent = locationPath(projectId, location)
clusterPath(projectId, location, clusterId) ==
  <<"projects/", projectId, "/locations/", location, "/clusters/", clusterId>>

\* A remote call: the function called, the project the client it goes
\* through was constructed for, and what it is called on.
Call(fn, client, arg) == [fn |-> fn, client |-> client, arg |-> arg]

\* The pipeline stage a remote call belongs to.
StageOf(fn) ==
  CASE fn \in {"getService", "enableService", "operation.promise"} -> "EnableAPIs"
    [] fn \in {"bucket.exists", "createBucket"} -> "EnsureBucket"
    [] fn = "zipFiles" -> "PackageSource"
    [] fn = "upload" -> "UploadSource"
    [] fn \in {"getRepository", "createRepository"} -> "EnsureRegistry"
    [] fn \in {"createBuild", "build.promise"} -> "TriggerBuild"
    [] fn \in {"getCluster", "createCluster", "deleteCluster"} -> "EnsureCluster"
    [] fn \in {"get-credentials", "kubectl apply", "kubectl get service"} ->
         "ApplyManifests"

(* ----------------------------- control --------------------------------- *)

\* deploy has been called and has not settled.
Running(i) == pc[i] \notin {"idle", "done", "failed"}

\* The invocation goes on: it issues the calls cs, passes the events es to
\* logAndProgress and suspends on the await p.
Advance(i, p, idx, o, cs, es) ==
  /\ pc' = [pc EXCEPT ![i] = p]
  /\ apiIdx' = [apiIdx EXCEPT ![i] = idx]
  /\ op' = [op EXCEPT ![i] = o]
  /\ calls' = [calls EXCEPT ![i] = @ \o cs]
  /\ logAndProgress(i, es)
  /\ UNCHANGED <<cause, raised, error, result>>

\* Mutant: deploy's catch block rethrows without reporting the failure.
deploy_catch_silent(i, c, e, es) ==
  /\ pc' = [pc EXCEPT ![i] = "failed"]
  /\ op' = [op EXCEPT ![i] = None]
  /\ logAndProgress(i, es)
  /\ cause' = [cause EXCEPT ![i] = c]
  /\ raised' = [raised EXCEPT ![i] = e]
  /\ error' = [error EXCEPT ![i] = e]
  /\ UNCHANGED <<apiIdx, calls, result>>

\* deploy's catch block: the error reaches it after the inner handlers have
\* logged es; it logs 'Deployment failed: ...' and rethrows the same error,
\* unless the callback throws on that event.
deploy_catch(i, c, e, es) ==
  LET ev == ProgressEvent("error", <<"Deployment failed: ">> \o e.message)
  IN /\ pc' = [pc EXCEPT ![i] = "failed"]
     /\ op' = [op EXCEPT ![i] = None]
     /\ logAndProgress(i, es \o <<ev>>)
     /\ cause' = [cause EXCEPT ![i] = c]
     /\ raised' = [raised EXCEPT ![i] = e]
     /\ error' = [error EXCEPT ![i] = IF Raises(i, ev) THEN CallbackError ELSE e]
     /\ UNCHANGED <<apiIdx, calls, result>>

\* deploy returns the result of deployToGke.
deploy_return(i, r, es) ==
  /\ pc' = [pc EXCEPT ![i] = "done"]
  /\ op' = [op EXCEPT ![i] = None]
  /\ logAndProgress(i, es)
  /\ result' = [result EXCEPT ![i] = r]
  /\ UNCHANGED <<apiIdx, calls, cause, raised, error>>

(* ------------------------- deploy: entry ------------------------------- *)

\* The repository reference ensureArtifactRegistryRepoExists returns.
repoUrl(projectId, location, repositoryId) ==
  <<location, "-docker.pkg.dev/", projectId, "/">> \o repositoryId

\* The remote state the request r meets.
RemoteState(r) ==
  [apis |-> apiState[r.projectId],
   bucket |-> bucketName(r.projectId) \in buckets,
   repo |-> repoUrl(r.projectId, r.region, repoName(r.serviceName)) \in repos]

\* deploy(request) is called: it runs to its first await, the dynamic
\* imports of the client libraries (lines 222-225 are one suspension here).
deploy_call(i, r) ==
  /\ pc[i] = "idle"
  /\ req' = [req EXCEPT ![i] = r]
  /\ before' = [before EXCEPT ![i] = RemoteState(r)]
  /\ Advance(i, "import", 0, None, <<>>, <<>>)
  /\ UNCHANGED <<clientVars, remoteVars, kubeContext, cancelled, server>>

\* The imports are in: the module-level handles are overwritten with clients
\* of this invocation's project, then ensureApisEnabled is entered and
\* suspends on its own import.
deploy_initClients(i) ==
  /\ pc[i] = "import"
  /\ storage' = req[i].projectId
  /\ cloudBuildClient' = req[i].projectId
  /\ artifactRegistryClient' = req[i].projectId
  /\ containerClient' = req[i].projectId
  /\ Advance(i, "apisImport", 0, None, <<>>, <<>>)
  /\ UNCHANGED <<toolVars, req, before, remoteVars, kubeContext>>

(* ------------------------ ensureApisEnabled ---------------------------- *)

\* Mutant: the state is compared with the wrong spelling, so that every API
\* is taken to need enabling.
NeedsEnable_misspelt(state) == state # "enabled"

\* Mutant: the comparison is inverted.
NeedsEnable_inverted(state) == state = "ENABLED"

\* service.state !== 'ENABLED'
NeedsEnable(state) == state # "ENABLED"

\* deploy calls ensureStorageBucketExists(bucketName, region): it checks
\* through the storage client whether the bucket exists.
ensureStorageBucketExists_call(i, idx, es) ==
  LET b == bucketName(req[i].projectId) IN
  Advance(i, "bucket.exists", idx, None,
    <<Call("bucket.exists", storage, b)>>,
    es \o <<ProgressEvent("info", <<"Checking if bucket ">> \o b \o <<" exists...">>)>>)

\* One iteration of the loop begins: getService for apis[idx]; past the last
\* API the function returns and deploy goes on to the bucket.
ensureApisEnabled_iterate(i, idx) ==
  LET p == req[i].projectId IN
  IF idx <= Len(REQUIRED_APIS)
  THEN Advance(i, "getService", idx, None,
         <<Call("getService", p, serviceResource(p, REQUIRED_APIS[idx]))>>, <<>>)
  ELSE ensureStorageBucketExists_call(i, idx,
         <<ProgressEvent("info", <<"All required APIs are enabled.">>)>>)

\* Mutant: the catch block logs the error and lets the loop go on.
ensureApisEnabled_catch_swallow(i, api, e) ==
  LET errorMessage == <<"Failed to ensure API [", api, "] is enabled. Please check manually.">>
      p == req[i].projectId
  IN /\ pc' = [pc EXCEPT ![i] = IF apiIdx[i] < Len(REQUIRED_APIS) THEN "getService" ELSE "bucket.exists"]
     /\ apiIdx' = [apiIdx EXCEPT ![i] = @ + 1]
     /\ op' = [op EXCEPT ![i] = None]
     /\ calls' = [calls EXCEPT ![i] = @ \o
          IF apiIdx[i] < Len(REQUIRED_APIS)
          THEN <<Call("getService", p, serviceResource(p, REQUIRED_APIS[apiIdx[i] + 1]))>>
          ELSE <<Call("bucket.exists", storage, bucketName(p))>>]
     /\ logAndProgress(i, <<ProgressEvent("error", errorMessage)>>)
     /\ cause' = [cause EXCEPT ![i] = e]
     /\ UNCHANGED <<raised, error, result>>

\* The catch block of the loop body: the remote error e is logged to the
\* console only; a new Error with a fixed message is thrown to deploy.
ensureApisEnabled_catch(i, api, e) ==
  LET errorMessage == <<"Failed to ensure API [", api, "] is enabled. Please check manually.">>
  IN deploy_catch(i, e, Error(errorMessage), <<ProgressEvent("error", errorMessage)>>)

\* The service-usage library is imported: the first event of the run is
\* logged, outside the try of the loop, and the loop begins.  A callback
\* that throws on it ends the run in deploy's catch block.
ensureApisEnabled_begin(i) ==
  /\ pc[i] = "apisImport"
  /\ LET ev == ProgressEvent("info", <<"Checking and enabling required APIs...">>)
     IN IF Raises(i, ev)
        THEN /\ deploy_catch(i, NoError, CallbackError, <<ev>>)
             /\ UNCHANGED <<toolVars, req, before, clientVars, remoteVars, kubeContext>>
        ELSE /\ pc' = [pc EXCEPT ![i] = "getService"]
             /\ apiIdx' = [apiIdx EXCEPT ![i] = 1]
             /\ calls' = [calls EXCEPT ![i] = @ \o
                  <<Call("getService", req[i].projectId,
                         serviceResource(req[i].projectId, REQUIRED_APIS[1]))>>]
             /\ logAndProgress(i, <<ev>>)
             /\ UNCHANGED <<toolVars, req, before, op, cause, raised, error, result, clientVars, remoteVars, kubeContext>>

\* getService has settled.
ensureApisEnabled_getService(i) ==
  /\ pc[i] = "getService"
  /\ LET p == req[i].projectId
         api == REQUIRED_APIS[apiIdx[i]]
     IN \/ IF NeedsEnable(apiState[p][api])
           THEN Advance(i, "enableService", apiIdx[i], None,
                  <<Call("enableService", p, serviceResource(p, api))>>,
                  <<ProgressEvent("info", <<"API [", api, "] is not enabled. Enabling...">>)>>)
           ELSE ensureApisEnabled_iterate(i, apiIdx[i] + 1)
        \/ \E c \in OtherCodes, d \in Details :
             ensureApisEnabled_catch(i, api, RemoteError(c, d))
  /\ UNCHANGED <<toolVars, req, before, clientVars, remoteVars, kubeContext>>

\* Mutant: the operation enableService returns is not awaited.
ensureApisEnabled_enableService_notAwaited(i) ==
  /\ pc[i] = "enableService"
  /\ LET p == req[i].projectId
         api == REQUIRED_APIS[apiIdx[i]]
         idx == apiIdx[i] + 1
     IN \/ \E o \in {"pending", "never"} :
             IF idx <= Len(REQUIRED_APIS)
             THEN Advance(i, "getService", idx, o,
                    <<Call("getService", p, serviceResource(p, REQUIRED_APIS[idx]))>>, <<>>)
             ELSE Advance(i, "bucket.exists", idx, o,
                    <<Call("bucket.exists", storage, bucketName(p))>>,
                    <<ProgressEvent("info", <<"All required APIs are enabled.">>)>>)
        \/ \E c \in OtherCodes, d \in Details :
             ensureApisEnabled_catch(i, api, RemoteError(c, d))
  /\ UNCHANGED <<toolVars, req, before, clientVars, remoteVars, kubeContext>>

\* enableService has settled: with an operation, whose promise is awaited
\* (the operation may be one that never completes), or with an error.
ensureApisEnabled_enableService(i) ==
  /\ pc[i] = "enableService"
  /\ LET p == req[i].projectId
         api == REQUIRED_APIS[apiIdx[i]]
     IN \/ \E o \in {"pending", "never"} :
             Advance(i, "operation.promise", apiIdx[i], o,
               <<Call("operation.promise", p, serviceResource(p, api))>>, <<>>)
        \/ \E c \in OtherCodes, d \in Details :
             ensureApisEnabled_catch(i, api, RemoteError(c, d))
  /\ UNCHANGED <<toolVars, req, before, clientVars, remoteVars, kubeContext>>

\* The enable operation has completed: the API is enabled and the loop goes
\* on; or it has failed.
ensureApisEnabled_operation(i) ==
  /\ pc[i] = "operation.promise"
  /\ op[i] = "pending"
  /\ LET p == req[i].projectId
         api == REQUIRED_APIS[apiIdx[i]]
     IN \/ /\ apiState' = [apiState EXCEPT ![p][api] = "ENABLED"]
           /\ ensureApisEnabled_iterate(i, apiIdx[i] + 1)
        \/ /\ \E c \in OtherCodes, d \in Details :
                ensureApisEnabled_catch(i, api, RemoteError(c, d))
           /\ UNCHANGED apiState
  /\ UNCHANGED <<toolVars, req, before, clientVars, buckets, objects, repos, images, kubeContext>>

(* ------------- stages whose functions the module only calls ------------ *)

\* `${targetRepoName}/${serviceName}:${IMAGE_TAG}`
targetImageUrl(r) ==
  repoUrl(r.projectId, r.region, repoName(r.serviceName))
    \o <<"/", r.serviceName, ":", IMAGE_TAG>>

toLowerCase(s) ==
  LET upper == <<"A", "B", "C", "D", "E", "F", "G", "H", "I", "J", "K", "L", "M",
                 "N", "O", "P", "Q", "R", "S", "T", "U", "V", "W", "X", "Y", "Z">>
      lower == <<"a", "b", "c", "d", "e", "f", "g", "h", "i", "j", "k", "l", "m",
                 "n", "o", "p", "q", "r", "s", "t", "u", "v", "w", "x", "y", "z">>
      low(c) == IF \E k \in 1..Len(upper) : upper[k] = c
                THEN lower[CHOOSE k \in 1..Len(upper) : upper[k] = c]
                ELSE c
  IN [n \in 1..Len(s) |-> low(s[n])]

endsWith(s, suffix) ==
  /\ Len(s) >= Len(suffix)
  /\ SubSeq(s, Len(s) - Len(suffix) + 1, Len(s)) = suffix

\* file.toLowerCase().endsWith('dockerfile'), for a string
isDockerfile(file) ==
  endsWith(toLowerCase(file.chars), <<"d", "o", "c", "k", "e", "r", "f", "i", "l", "e">>)

\* files.some(...) comes to an entry that has no toLowerCase method before
\* it has found a Dockerfile: the callback throws a TypeError.
hasDockerfile_throws(files) ==
  \E n \in 1..Len(files) :
    /\ files[n].type # "string"
    /\ \A m \in 1..(n - 1) : files[m].type = "string" /\ ~isDockerfile(files[m])

\* files.some(file => file.toLowerCase().endsWith('dockerfile'))
hasDockerfile(files) ==
  \E n \in 1..Len(files) : files[n].type = "string" /\ isDockerfile(files[n])

\* A stage function has thrown e: nothing between it and deploy's catch.
stage_throw(i, e) == deploy_catch(i, e, e, <<>>)

\* ensureStorageBucketExists: the existence check has settled.
ensureStorageBucketExists_exists(i) ==
  /\ pc[i] = "bucket.exists"
  /\ LET b == bucketName(req[i].projectId)
     IN \/ IF b \in buckets
           THEN Advance(i, "zipFiles", apiIdx[i], None,
                  <<Call("zipFiles", None, req[i].files)>>,
                  <<ProgressEvent("info", <<"Bucket ">> \o b \o <<" already exists.">>),
                    ProgressEvent("info", <<"Creating archive of the source files...">>)>>)
           ELSE Advance(i, "createBucket", apiIdx[i], None,
                  <<Call("createBucket", storage, b)>>,
                  <<ProgressEvent("info", <<"Bucket ">> \o b \o <<" does not exist. Creating...">>)>>)
        \/ \E c \in OtherCodes, d \in Details : stage_throw(i, RemoteError(c, d))
  /\ UNCHANGED <<toolVars, req, before, clientVars, remoteVars, kubeContext>>

\* ensureStorageBucketExists: the creation has settled.
ensureStorageBucketExists_create(i) ==
  /\ pc[i] = "createBucket"
  /\ LET b == bucketName(req[i].projectId)
     IN \/ /\ buckets' = buckets \cup {b}
           /\ Advance(i, "zipFiles", apiIdx[i], None,
                <<Call("zipFiles", None, req[i].files)>>,
                <<ProgressEvent("info", <<"Bucket ">> \o b \o <<" created.">>),
                  ProgressEvent("info", <<"Creating archive of the source files...">>)>>)
        \/ /\ \E c \in OtherCodes, d \in Details : stage_throw(i, RemoteError(c, d))
           /\ UNCHANGED buckets
  /\ UNCHANGED <<toolVars, req, before, clientVars, apiState, objects, repos, images, kubeContext>>

\* zipFiles has settled: with the archive, which is uploaded, or with the
\* error of an unreadable input.
zipFiles(i) ==
  /\ pc[i] = "zipFiles"
  /\ LET b == bucketName(req[i].projectId)
     IN \/ Advance(i, "upload", apiIdx[i], None,
             <<Call("upload", storage, b \o <<"/", ZIP_FILE_NAME>>)>>,
             <<ProgressEvent("info", <<"Uploading ", ZIP_FILE_NAME, " to bucket ">> \o b)>>)
        \/ \E d \in Details : stage_throw(i, Error(<<"Cannot read file: ", d>>))
  /\ UNCHANGED <<toolVars, req, before, clientVars, remoteVars, kubeContext>>

\* uploadToStorageBucket has settled; deploy goes on to the repository.
uploadToStorageBucket(i) ==
  /\ pc[i] = "upload"
  /\ LET r == req[i]
         b == bucketName(r.projectId)
     IN \/ /\ objects' = [objects EXCEPT ![r.projectId] = i]
           /\ Advance(i, "getRepository", apiIdx[i], None,
                <<Call("getRepository", artifactRegistryClient,
                       repoUrl(r.projectId, r.region, repoName(r.serviceName)))>>,
                <<ProgressEvent("info", <<"Uploaded ", ZIP_FILE_NAME, " to bucket ">> \o b),
                  ProgressEvent("info", <<"Checking if repository ">> \o repoName(r.serviceName) \o <<" exists...">>)>>)
        \/ /\ \E c \in OtherCodes, d \in Details : stage_throw(i, RemoteError(c, d))
           /\ UNCHANGED objects
  /\ UNCHANGED <<toolVars, req, before, clientVars, apiState, buckets, repos, images, kubeContext>>

\* Mutant: the build is pointed at an object named after the service.
triggerCloudBuild_args_ownObject(r) ==
  [projectId |-> r.projectId, region |-> r.region,
   bucket |-> bucketName(r.projectId), object |-> r.serviceName,
   targetRepoName |-> repoUrl(r.projectId, r.region, repoName(r.serviceName)),
   image |-> targetImageUrl(r), hasDockerfile |-> hasDockerfile(r.files)]

\* The arguments deploy passes to triggerCloudBuild: the bucket and object
\* of the source, the repository, the image to build, the strategy (of a
\* file list on which files.some does not throw).
triggerCloudBuild_args(r) ==
  [projectId |-> r.projectId, region |-> r.region,
   bucket |-> bucketName(r.projectId), object |-> ZIP_FILE_NAME,
   targetRepoName |-> repoUrl(r.projectId, r.region, repoName(r.serviceName)),
   image |-> targetImageUrl(r), hasDockerfile |-> hasDockerfile(r.files)]

\* triggerCloudBuild submits the build through the Cloud Build client.
triggerCloudBuild_call(i, es) ==
  LET r == req[i] IN
  Advance(i, "createBuild", apiIdx[i], None,
    <<Call("createBuild", cloudBuildClient, triggerCloudBuild_args(r))>>,
    es \o <<ProgressEvent("info", <<"Initiating Cloud Build for ">> \o targetImageUrl(r))>>)

\* Mutant: deployToGke creates the cluster before it looks for it.
deployToGke_call_createsCluster(i, es) ==
  LET r == req[i] IN
  Advance(i, "getCluster", apiIdx[i], None,
    <<Call("createCluster", containerClient,
           clusterPath(r.projectId, r.region, r.clusterId)),
      Call("getCluster", containerClient,
           clusterPath(r.projectId, r.region, r.clusterId))>>, es)

\* deploy calls deployToGke, which calls checkGkeClusterExists: getCluster
\* goes through the module-level containerClient.
deployToGke_call(i, es) ==
  LET r == req[i] IN
  Advance(i, "getCluster", apiIdx[i], None,
    <<Call("getCluster", containerClient,
           clusterPath(r.projectId, r.region, r.clusterId))>>, es)

\* Mutant: deploy looks for the cluster before it builds, and does not
\* build.
deploy_triggerCloudBuild_clusterFirst(i, es) == deployToGke_call(i, es)

\* The repository reference is back: deploy computes the image URL and
\* hasDockerfile, which may throw, and calls triggerCloudBuild.
deploy_triggerCloudBuild(i, es) ==
  IF hasDockerfile_throws(req[i].files)
  THEN deploy_catch(i, TypeError, TypeError, es)
  ELSE triggerCloudBuild_call(i, es)

\* ensureArtifactRegistryRepoExists: the read has settled.
ensureArtifactRegistryRepoExists_get(i) ==
  /\ pc[i] = "getRepository"
  /\ LET r == req[i]
         u == repoUrl(r.projectId, r.region, repoName(r.serviceName))
     IN \/ IF u \in repos
           THEN deploy_triggerCloudBuild(i,
                  <<ProgressEvent("info", <<"Repository ">> \o repoName(r.serviceName) \o <<" already exists.">>)>>)
           ELSE Advance(i, "createRepository", apiIdx[i], None,
                  <<Call("createRepository", artifactRegistryClient, u)>>,
                  <<ProgressEvent("info", <<"Repository ">> \o repoName(r.serviceName) \o <<" does not exist. Creating...">>)>>)
        \/ \E c \in OtherCodes, d \in Details : stage_throw(i, RemoteError(c, d))
  /\ UNCHANGED <<toolVars, req, before, clientVars, remoteVars, kubeContext>>

\* ensureArtifactRegistryRepoExists: the creation has settled.
ensureArtifactRegistryRepoExists_create(i) ==
  /\ pc[i] = "createRepository"
  /\ LET r == req[i]
         u == repoUrl(r.projectId, r.region, repoName(r.serviceName))
     IN \/ /\ repos' = repos \cup {u}
           /\ deploy_triggerCloudBuild(i,
                <<ProgressEvent("info", <<"Repository ">> \o repoName(r.serviceName) \o <<" created.">>)>>)
        \/ /\ \E c \in OtherCodes, d \in Details : stage_throw(i, RemoteError(c, d))
           /\ UNCHANGED repos
  /\ UNCHANGED <<toolVars, req, before, clientVars, apiState, buckets, objects, images, kubeContext>>

\* triggerCloudBuild: the submission has settled, with the build operation
\* it then waits for, or with an error.
triggerCloudBuild_submit(i) ==
  /\ pc[i] = "createBuild"
  /\ \/ \E o \in {"pending", "never"} :
          Advance(i, "build.promise", apiIdx[i], o,
            <<Call("build.promise", cloudBuildClient, targetImageUrl(req[i]))>>, <<>>)
     \/ \E c \in OtherCodes, d \in Details : stage_throw(i, RemoteError(c, d))
  /\ UNCHANGED <<toolVars, req, before, clientVars, remoteVars, kubeContext>>

(* ----------------------------- deployToGke ----------------------------- *)

\* Mutant: the deployment manifest is annotated with the cluster kubectl
\* pointed at before this invocation.
deploymentYaml_annotated(deploymentName, imgUrl) ==
  <<"{\"apiVersion\":\"apps/v1\",\"kind\":\"Deployment\",\"metadata\":{\"name\":\"",
    deploymentName,
    "\",\"annotations\":{\"previous\":\"", kubeContext.clusterId,
    "\"}},\"spec\":{\"containers\":[{\"image\":\"">> \o imgUrl \o <<"\"}]}}">>

\* Mutant: the service selects pods by its own name.
service_selectsOwnName(deploymentName) ==
  [apiVersion |-> "v1",
   kind |-> "Service",
   metadata |->
     [name |-> <<deploymentName, "-service">>,
      labels |-> [l \in {"created-by"} |-> <<"gke-mcp">>]],
   spec |->
     [type |-> "LoadBalancer",
      ports |-> <<[port |-> 80, targetPort |-> 8080]>>,
      selector |-> [l \in {"app"} |-> <<deploymentName, "-service">>]]]

\* The deployment manifest: the object literal of lines 119-152.
deployment(deploymentName, imgUrl) ==
  [apiVersion |-> "apps/v1",
   kind |-> "Deployment",
   metadata |->
     [name |-> <<deploymentName>>,
      labels |-> [l \in {"created-by"} |-> <<"gke-mcp">>]],
   spec |->
     [replicas |-> 1,
      selector |-> [matchLabels |-> [l \in {"app"} |-> <<deploymentName>>]],
      template |->
        [metadata |-> [labels |-> [l \in {"app"} |-> <<deploymentName>>]],
         spec |->
           [containers |->
              <<[name |-> <<deploymentName>>,
                 image |-> imgUrl,
                 ports |-> <<[containerPort |-> 8080]>>]>>]]]]

\* The service manifest: the object literal of lines 155-181.
service(deploymentName) ==
  [apiVersion |-> "v1",
   kind |-> "Service",
   metadata |->
     [name |-> <<deploymentName, "-service">>,
      labels |-> [l \in {"created-by"} |-> <<"gke-mcp">>]],
   spec |->
     [type |-> "LoadBalancer",
      ports |-> <<[port |-> 80, targetPort |-> 8080]>>,
      selector |-> [l \in {"app"} |-> <<deploymentName>>]]]

\* JSON.stringify of a string given as its pieces.
stringifyString(pieces) == <<"\"">> \o pieces \o <<"\"">>

\* JSON.stringify of an object with one key, as the label maps are.
stringifyLabels(labels) ==
  LET key == CHOOSE k \in DOMAIN labels : TRUE
  IN <<"{\"", key, "\":">> \o stringifyString(labels[key]) \o <<"}">>

\* JSON.stringify(deployment): the text of the deployment manifest, the
\* keys in the order of the literal.
deploymentYaml(deploymentName, imgUrl) ==
  LET d == deployment(deploymentName, imgUrl)
      c == d.spec.template.spec.containers[1]
  IN <<"{\"apiVersion\":">> \o stringifyString(<<d.apiVersion>>)
     \o <<",\"kind\":">> \o stringifyString(<<d.kind>>)
     \o <<",\"metadata\":{\"name\":">> \o stringifyString(d.metadata.name)
     \o <<",\"labels\":">> \o stringifyLabels(d.metadata.labels)
     \o <<"},\"spec\":{\"replicas\":", ToString(d.spec.replicas)>>
     \o <<",\"selector\":{\"matchLabels\":">> \o stringifyLabels(d.spec.selector.matchLabels)
     \o <<"},\"template\":{\"metadata\":{\"labels\":">>
     \o stringifyLabels(d.spec.template.metadata.labels)
     \o <<"},\"spec\":{\"containers\":[{\"name\":">> \o stringifyString(c.name)
     \o <<",\"image\":">> \o stringifyString(c.image)
     \o <<",\"ports\":[{\"containerPort\":", ToString(c.ports[1].containerPort)>>
     \o <<"}]}]}}}}">>

\* JSON.stringify(service): the text of the service manifest.
serviceYaml(deploymentName) ==
  LET s == service(deploymentName)
  IN <<"{\"apiVersion\":">> \o stringifyString(<<s.apiVersion>>)
     \o <<",\"kind\":">> \o stringifyString(<<s.kind>>)
     \o <<",\"metadata\":{\"name\":">> \o stringifyString(s.metadata.name)
     \o <<",\"labels\":">> \o stringifyLabels(s.metadata.labels)
     \o <<"},\"spec\":{\"type\":">> \o stringifyString(<<s.spec.type>>)
     \o <<",\"ports\":[{\"port\":", ToString(s.spec.ports[1].port)>>
     \o <<",\"targetPort\":", ToString(s.spec.ports[1].targetPort)>>
     \o <<"}],\"selector\":">> \o stringifyLabels(s.spec.selector)
     \o <<"}}">>

getCredentialsCmd(r) ==
  <<"gcloud container clusters get-credentials ", r.clusterId,
    " --zone ", r.region, " --project ", r.projectId>>

applyCmd(yaml) == <<"echo '">> \o yaml \o <<"' | kubectl apply -f -">>

getServiceCmd(deploymentName) ==
  <<"kubectl get service ", deploymentName, "-service",
    " -o jsonpath='{.status.loadBalancer.ingress[0].ip}'">>

\* deployToGke's catch block: logs the error and rethrows it to deploy.
deployToGke_catch(i, c, e, es) ==
  deploy_catch(i, c, e,
    es \o <<ProgressEvent("error", <<"Error deploying to GKE: ">> \o e.message)>>)

\* A command run by execPromise has failed with e.
deployToGke_exec_catch(i, e) == deployToGke_catch(i, e, e, <<>>)

\* Mutant: the HTTP status is tested instead of the gRPC status.
IsNotFound_http(e) == e.code = 404

\* error.code === 5
IsNotFound(e) == e.code = NOT_FOUND

\* The build operation has completed: the image is in the registry and
\* deploy goes on to deployToGke; or the build has failed.
triggerCloudBuild_operation(i) ==
  /\ pc[i] = "build.promise"
  /\ op[i] = "pending"
  /\ \/ /\ images' = images \cup {targetImageUrl(req[i])}
        /\ deployToGke_call(i,
             <<ProgressEvent("info", <<"Cloud Build completed successfully.">>)>>)
     \/ /\ \E c \in OtherCodes, d \in Details : stage_throw(i, RemoteError(c, d))
        /\ UNCHANGED images
  /\ UNCHANGED <<toolVars, req, before, clientVars, apiState, buckets, objects, repos, kubeContext>>

\* Mutant: a cluster that is found is not reported.
checkGkeClusterExists_silent(i) ==
  /\ pc[i] = "getCluster"
  /\ LET clusterId == req[i].clusterId
     IN \/ Advance(i, "execImport", apiIdx[i], None, <<>>, <<>>)
        \/ \E c \in {NOT_FOUND} \cup OtherCodes, d \in Details :
             deployToGke_catch(i, RemoteError(c, d), RemoteError(c, d), <<>>)
  /\ UNCHANGED <<toolVars, req, before, clientVars, remoteVars, kubeContext>>

\* Mutant: when the cluster read fails, the image the run has built is
\* deleted from the registry.
checkGkeClusterExists_rollback(i) ==
  /\ pc[i] = "getCluster"
  /\ LET clusterId == req[i].clusterId
     IN \/ /\ Advance(i, "execImport", apiIdx[i], None, <<>>,
                <<ProgressEvent("info", <<"GKE cluster ", clusterId, " exists.">>)>>)
           /\ UNCHANGED images
        \/ /\ \E c \in {NOT_FOUND} \cup OtherCodes, d \in Details :
                deployToGke_catch(i, RemoteError(c, d), RemoteError(c, d), <<>>)
           /\ images' = images \ {targetImageUrl(req[i])}
  /\ UNCHANGED <<toolVars, req, before, clientVars, apiState, buckets, objects, repos, kubeContext>>

\* checkGkeClusterExists: getCluster has settled.  Found: true, and
\* deployToGke builds the manifests and suspends on the import of
\* child_process.  NOT_FOUND: false, and deployToGke throws.  Any other
\* error is logged and rethrown.
checkGkeClusterExists(i) ==
  /\ pc[i] = "getCluster"
  /\ LET clusterId == req[i].clusterId
     IN \/ Advance(i, "execImport", apiIdx[i], None, <<>>,
             <<ProgressEvent("info", <<"GKE cluster ", clusterId, " exists.">>)>>)
        \/ \E c \in {NOT_FOUND} \cup OtherCodes, d \in Details :
             LET e == RemoteError(c, d) IN
             IF IsNotFound(e)
             THEN deployToGke_catch(i, e,
                    Error(<<"GKE cluster ", clusterId, " does not exist. Please create it first.">>),
                    <<ProgressEvent("info", <<"GKE cluster ", clusterId, " does not exist.">>)>>)
             ELSE deployToGke_catch(i, e, e,
                    <<ProgressEvent("error",
                        <<"Error checking GKE cluster ", clusterId, ": ">> \o e.message)>>)
  /\ UNCHANGED <<toolVars, req, before, clientVars, remoteVars, kubeContext>>

\* child_process and util are imported: get-credentials is run.
deployToGke_getCredentials(i) ==
  /\ pc[i] = "execImport"
  /\ Advance(i, "get-credentials", apiIdx[i], None,
       <<Call("get-credentials", None, getCredentialsCmd(req[i]))>>,
       <<ProgressEvent("info", <<"Getting credentials for cluster ", req[i].clusterId, "...">>)>>)
  /\ UNCHANGED <<toolVars, req, before, clientVars, remoteVars, kubeContext>>

\* Mutant: the service manifest is applied first.
deployToGke_applyDeployment_serviceFirst(i) ==
  /\ pc[i] = "get-credentials"
  /\ LET r == req[i]
         target == [projectId |-> r.projectId, region |-> r.region,
                    clusterId |-> r.clusterId]
     IN \/ /\ kubeContext' = target
           /\ Advance(i, "applyDeployment", apiIdx[i], None,
                <<Call("kubectl apply", target.projectId, applyCmd(serviceYaml(r.serviceName)))>>,
                <<ProgressEvent("info", <<"Deploying ", r.serviceName, " to GKE...">>)>>)
        \/ /\ \E d \in Details : deployToGke_exec_catch(i, ExecError(getCredentialsCmd(r), d))
           /\ UNCHANGED kubeContext
  /\ UNCHANGED <<toolVars, req, before, clientVars, remoteVars>>

\* get-credentials has settled: kubectl now points at the cluster, and the
\* deployment manifest is applied.
deployToGke_applyDeployment(i) ==
  /\ pc[i] = "get-credentials"
  /\ LET r == req[i]
         target == [projectId |-> r.projectId, region |-> r.region,
                    clusterId |-> r.clusterId]
     IN \/ /\ kubeContext' = target
           /\ Advance(i, "applyDeployment", apiIdx[i], None,
                <<Call("kubectl apply", target.projectId,
                       applyCmd(deploymentYaml(r.serviceName, targetImageUrl(r))))>>,
                <<ProgressEvent("info", <<"Deploying ", r.serviceName, " to GKE...">>)>>)
        \/ /\ \E d \in Details : deployToGke_exec_catch(i, ExecError(getCredentialsCmd(r), d))
           /\ UNCHANGED kubeContext
  /\ UNCHANGED <<toolVars, req, before, clientVars, remoteVars>>

\* The deployment manifest is applied: the service manifest is applied.
deployToGke_applyService(i) ==
  /\ pc[i] = "applyDeployment"
  /\ LET r == req[i]
     IN \/ Advance(i, "applyService", apiIdx[i], None,
             <<Call("kubectl apply", kubeContext.projectId, applyCmd(serviceYaml(r.serviceName)))>>, <<>>)
        \/ \E d \in Details :
             deployToGke_exec_catch(i,
               ExecError(applyCmd(deploymentYaml(r.serviceName, targetImageUrl(r))), d))
  /\ UNCHANGED <<toolVars, req, before, clientVars, remoteVars, kubeContext>>

\* The service manifest is applied: the external IP of the service is read.
deployToGke_getService(i) ==
  /\ pc[i] = "applyService"
  /\ LET r == req[i]
     IN \/ Advance(i, "getServiceIp", apiIdx[i], None,
             <<Call("kubectl get service", kubeContext.projectId, getServiceCmd(r.serviceName))>>, <<>>)
        \/ \E d \in Details :
             deployToGke_exec_catch(i, ExecError(applyCmd(serviceYaml(r.serviceName)), d))
  /\ UNCHANGED <<toolVars, req, before, clientVars, remoteVars, kubeContext>>

\* Mutant: the URL is the bare address.
DeploymentResult_bareAddress(deploymentName, stdout) ==
  [name |-> deploymentName, url |-> <<stdout>>]

\* The result deployToGke returns for what kubectl printed.
DeploymentResult(deploymentName, stdout) ==
  [name |-> deploymentName, url |-> <<"http://", stdout>>]

\* kubectl get service has settled: whatever it printed (nothing, while no
\* address is assigned) makes the URL of the result.
deployToGke_return(i) ==
  /\ pc[i] = "getServiceIp"
  /\ LET r == req[i]
     IN \/ \E stdout \in Addresses :
             deploy_return(i, DeploymentResult(r.serviceName, stdout),
               <<ProgressEvent("info",
                   <<"Deployment successful! Service available at: http://", stdout>>)>>)
        \/ \E d \in Details :
             deployToGke_exec_catch(i, ExecError(getServiceCmd(r.serviceName), d))
  /\ UNCHANGED <<toolVars, req, before, clientVars, remoteVars, kubeContext>>

(* ------------------------- src/lib/gke-clusters.js --------------------- *)

\* What client.getCluster settles with: the cluster, or an error.
ClusterReplies ==
  {[found |-> TRUE, error |-> NoError]} \cup
  {[found |-> FALSE, error |-> RemoteError(c, d)] :
     c \in {NOT_FOUND} \cup OtherCodes, d \in Details}

\* Mutant: every failure of the read is taken for absence.
getCluster_allAbsent(reply) ==
  IF reply.found
  THEN [value |-> "cluster", thrown |-> NoError]
  ELSE [value |-> "null", thrown |-> NoError]

\* getCluster(projectId, location, clusterId) of gke-clusters.js: the
\* cluster; null when the read fails with code 5; else the error, rethrown.
getCluster(reply) ==
  IF reply.found
  THEN [value |-> "cluster", thrown |-> NoError]
  ELSE IF reply.error.code = NOT_FOUND
       THEN [value |-> "null", thrown |-> NoError]
       ELSE [value |-> None, thrown |-> reply.error]

(* ----------------------------- src/tools.js ---------------------------- *)

\* registerTools(server): the local tools, which take the project as an
\* argument.
registerTools == [mode |-> "local", currentProject |-> None]

\* registerToolsRemote(server): reads the metadata server itself and
\* throws when it tells no project; else the remote tools are registered
\* for that project.
registerToolsRemote(gcpInfo) ==
  IF ~gcpInfo.onGcp \/ gcpInfo.project = Undefined
  THEN [mode |-> "failed", currentProject |-> None]
  ELSE [mode |-> "remote", currentProject |-> gcpInfo.project]

\* mcp-server.js starts: on Google Cloud it registers the remote tools,
\* elsewhere the local ones.
mcp_server_start ==
  /\ server = NoServer
  /\ \E gcpInfo \in GcpInfos :
       IF gcpInfo.onGcp
       THEN \E again \in GcpInfos : server' = registerToolsRemote(again)
       ELSE server' = registerTools
  /\ UNCHANGED <<invVars, clientVars, remoteVars, kubeContext, tool, cancelled>>

\* The handler of the remote list_clusters is called: it awaits
\* listClusters for the project of the server.
list_clusters_call(i, a) ==
  /\ server.mode = "remote"
  /\ tool[i].state = "idle"
  /\ pc[i] = "idle"
  /\ tool' = [tool EXCEPT ![i] =
       [@ EXCEPT !.name = "list_clusters", !.args = a, !.state = "awaiting",
                 !.project = server.currentProject]]
  /\ UNCHANGED <<invVars, clientVars, remoteVars, kubeContext, cancelled, server>>

\* listClusters has settled, with the clusters or an error it rethrows, and
\* the handler returns its text.
list_clusters_return(i) ==
  /\ tool[i].name = "list_clusters"
  /\ tool[i].state = "awaiting"
  /\ \E e \in {NoError} \cup {RemoteError(c, d) : c \in OtherCodes, d \in Details} :
       LET a == tool[i].args
           text ==
             IF e = NoError
             THEN <<"Clusters in project ", tool[i].project, " (location ", a.region, "):\n">>
             ELSE <<"Error listing clusters for project ", tool[i].project,
                    " (region ", a.region, "): ">> \o e.message
       IN tool' = [tool EXCEPT ![i].state = "returned",
                               ![i].reply = e,
                               ![i].caught = e,
                               ![i].text = text]
  /\ UNCHANGED <<invVars, clientVars, remoteVars, kubeContext, cancelled, server>>

\* The handler of the local get_cluster is called: it checks its arguments
\* and awaits getCluster, which constructs a client of its own and reads
\* the cluster.
get_cluster_call(i, a) ==
  /\ server.mode = "local"
  /\ tool[i].state = "idle"
  /\ pc[i] = "idle"
  /\ LET t == [tool[i] EXCEPT !.name = "get_cluster", !.args = a]
     IN IF a.project = Undefined
        THEN tool' = [tool EXCEPT ![i] =
               [t EXCEPT !.state = "returned",
                         !.text = <<"Error: Project ID must be provided.">>]]
        ELSE IF a.cluster = Undefined
        THEN tool' = [tool EXCEPT ![i] =
               [t EXCEPT !.state = "returned",
                         !.text = <<"Error: Cluster name must be provided.">>]]
        ELSE tool' = [tool EXCEPT ![i] =
               [t EXCEPT !.state = "awaiting", !.project = a.project]]
  /\ UNCHANGED <<invVars, clientVars, remoteVars, kubeContext, cancelled, server>>

\* The handler of the remote get_cluster is called: it checks the cluster
\* name and awaits getCluster for the project of the server.
get_cluster_remote_call(i, a) ==
  /\ server.mode = "remote"
  /\ tool[i].state = "idle"
  /\ pc[i] = "idle"
  /\ LET t == [tool[i] EXCEPT !.name = "get_cluster", !.args = a]
     IN IF a.cluster = Undefined
        THEN tool' = [tool EXCEPT ![i] =
               [t EXCEPT !.state = "returned",
                         !.text = <<"Error: Cluster name must be provided.">>]]
        ELSE tool' = [tool EXCEPT ![i] =
               [t EXCEPT !.state = "awaiting", !.project = server.currentProject]]
  /\ UNCHANGED <<invVars, clientVars, remoteVars, kubeContext, cancelled, server>>

\* getCluster has settled and the handler, local or remote, returns its
\* text.
get_cluster_return(i) ==
  /\ tool[i].name = "get_cluster"
  /\ tool[i].state = "awaiting"
  /\ \E reply \in ClusterReplies :
       LET a == tool[i].args
           project == tool[i].project
           clusterDetails == getCluster(reply)
           text ==
             IF clusterDetails.thrown # NoError
             THEN <<"Error getting cluster ", a.cluster, " in project ", project,
                    " (region ", a.region, "): ">> \o clusterDetails.thrown.message
             ELSE IF clusterDetails.value = "cluster"
             THEN <<"Name: ", a.cluster, "\nRegion: ", a.region, "\nProject: ", project>>
             ELSE <<"Cluster ", a.cluster, " not found in project ", project,
                    " (region ", a.region, ").">>
       IN tool' = [tool EXCEPT ![i].state = "returned",
                               ![i].reply = reply.error,
                               ![i].value = clusterDetails.value,
                               ![i].caught = clusterDetails.thrown,
                               ![i].text = text]
  /\ UNCHANGED <<invVars, clientVars, remoteVars, kubeContext, cancelled, server>>

\* The request a deploy tool passes to deploy for the project it works on:
\* no progressCallback.
ToolRequest(project, a) ==
  [projectId |-> project, serviceName |-> a.service, region |-> a.region,
   clusterId |-> a.cluster, files |-> a.files.items, progressCallback |-> "absent"]

\* Mutant: the handler does not check that there are files.
deploy_local_files_validate_anyLength(a) ==
  IF a.project = Undefined
  THEN Error(<<"Project must specified, please prompt the user for a valid existing Google Cloud project ID.">>)
  ELSE IF ~a.files.isArray
  THEN Error(<<"Files must specified">>)
  ELSE NoError

\* The checks of deploy_local_files: the error thrown, or none.
deploy_local_files_validate(a) ==
  IF a.project = Undefined
  THEN Error(<<"Project must specified, please prompt the user for a valid existing Google Cloud project ID.">>)
  ELSE IF ~a.files.isArray
  THEN Error(<<"Files must specified">>)
  ELSE IF Len(a.files.items) = 0
  THEN Error(<<"No files specified for deployment">>)
  ELSE NoError

\* The handler of deploy_local_files is called: it throws on arguments it
\* rejects, else it calls deploy and awaits it.
deploy_local_files(i, a) ==
  /\ server.mode = "local"
  /\ tool[i].state = "idle"
  /\ a.cluster # Undefined
  /\ LET t == [tool[i] EXCEPT !.name = "deploy_local_files", !.args = a]
         e == deploy_local_files_validate(a)
     IN IF e # NoError
        THEN /\ pc[i] = "idle"
             /\ tool' = [tool EXCEPT ![i] = [t EXCEPT !.state = "thrown", !.thrown = e]]
             /\ UNCHANGED <<invVars, clientVars, remoteVars, kubeContext, cancelled, server>>
        ELSE /\ tool' = [tool EXCEPT ![i] =
                  [t EXCEPT !.state = "awaiting", !.project = a.project]]
             /\ deploy_call(i, ToolRequest(a.project, a))

\* The checks of deploy_file_contents: the error thrown, or none.
deploy_file_contents_validate(a) ==
  IF ~a.files.isArray \/ Len(a.files.items) = 0
  THEN Error(<<"Files must be specified">>)
  ELSE IF \E n \in 1..Len(a.files.items) : a.files.items[n].content = <<>>
  THEN LET n == CHOOSE n \in 1..Len(a.files.items) :
                  /\ a.files.items[n].content = <<>>
                  /\ \A m \in 1..(n - 1) : a.files.items[m].content # <<>>
       IN Error(<<"File ">> \o a.files.items[n].filename \o <<" must have content">>)
  ELSE NoError

\* Mutant: a project the caller supplies is used in place of the server's.
deploy_file_contents_callerProject(i, a) ==
  /\ server.mode = "remote"
  /\ tool[i].state = "idle"
  /\ a.cluster # Undefined
  /\ LET project == IF a.project = Undefined THEN server.currentProject ELSE a.project
         t == [tool[i] EXCEPT !.name = "deploy_file_contents", !.args = a]
         e == deploy_file_contents_validate(a)
     IN IF e # NoError
        THEN /\ pc[i] = "idle"
             /\ tool' = [tool EXCEPT ![i] = [t EXCEPT !.state = "thrown", !.thrown = e]]
             /\ UNCHANGED <<invVars, clientVars, remoteVars, kubeContext, cancelled, server>>
        ELSE /\ tool' = [tool EXCEPT ![i] =
                  [t EXCEPT !.state = "awaiting", !.project = project]]
             /\ deploy_call(i, ToolRequest(project, a))

\* The handler of deploy_file_contents is called: it takes region, cluster,
\* service and files of its arguments and deploys to the project of the
\* server.
deploy_file_contents(i, a) ==
  /\ server.mode = "remote"
  /\ tool[i].state = "idle"
  /\ a.cluster # Undefined
  /\ LET t == [tool[i] EXCEPT !.name = "deploy_file_contents", !.args = a]
         e == deploy_file_contents_validate(a)
     IN IF e # NoError
        THEN /\ pc[i] = "idle"
             /\ tool' = [tool EXCEPT ![i] = [t EXCEPT !.state = "thrown", !.thrown = e]]
             /\ UNCHANGED <<invVars, clientVars, remoteVars, kubeContext, cancelled, server>>
        ELSE /\ tool' = [tool EXCEPT ![i] =
                  [t EXCEPT !.state = "awaiting", !.project = server.currentProject]]
             /\ deploy_call(i, ToolRequest(server.currentProject, a))

\* deploy has settled: the handler of a deploy tool returns the URL of the
\* service, or the message of the error.
deploy_tool_return(i) ==
  /\ tool[i].name \in {"deploy_local_files", "deploy_file_contents"}
  /\ tool[i].state = "awaiting"
  /\ pc[i] \in {"done", "failed"}
  /\ LET a == tool[i].args
     IN IF pc[i] = "done"
        THEN tool' = [tool EXCEPT ![i].state = "returned",
               ![i].text = <<"GKE service ", a.service, " deployed in project ", tool[i].project,
                             "\nService URL: ">> \o result[i].url]
        ELSE tool' = [tool EXCEPT ![i].state = "returned", ![i].caught = error[i],
               ![i].text = <<"Error deploying to GKE: ">> \o error[i].message]
  /\ UNCHANGED <<invVars, clientVars, remoteVars, kubeContext, cancelled, server>>

\* The caller gives a request up while deploy is in progress: deploy takes
\* no signal and the handlers do not look at the one they are passed.
cancel(i) ==
  /\ Running(i)
  /\ ~cancelled[i]
  /\ cancelled' = [cancelled EXCEPT ![i] = TRUE]
  /\ UNCHANGED <<invVars, clientVars, remoteVars, kubeContext, tool, server>>

(* --------------------------- specification ----------------------------- *)

\* The remote states a run may start from: per project at most MaxDisabled
\* of the required APIs are disabled, the same ones in every project; the
\* buckets and the repositories either all exist or none does.
ApiWorlds ==
  {[p \in Projects |->
      [a \in Range(REQUIRED_APIS) |-> IF a \in D THEN "DISABLED" ELSE "ENABLED"]] :
    D \in {S \in SUBSET Range(REQUIRED_APIS) : Cardinality(S) <= MaxDisabled}}

AllBuckets == {bucketName(p) : p \in Projects}

AllRepos ==
  {repoUrl(p, l, repoName(n)) : p \in Projects, l \in Regions, n \in ServiceNames}

InitInvocations ==
  /\ pc = [i \in Invs |-> "idle"]
  /\ req = [i \in Invs |-> NoRequest]
  /\ apiIdx = [i \in Invs |-> 0]
  /\ op = [i \in Invs |-> None]
  /\ calls = [i \in Invs |-> <<>>]
  /\ events = [i \in Invs |-> <<>>]
  /\ cause = [i \in Invs |-> NoError]
  /\ raised = [i \in Invs |-> NoError]
  /\ error = [i \in Invs |-> NoError]
  /\ result = [i \in Invs |-> NoResult]
  /\ before = [i \in Invs |->
       [apis |-> [a \in Range(REQUIRED_APIS) |-> Undefined],
        bucket |-> FALSE, repo |-> FALSE]]
  /\ storage = Undefined
  /\ cloudBuildClient = Undefined
  /\ artifactRegistryClient = Undefined
  /\ containerClient = Undefined
  /\ kubeContext = NoContext
  /\ objects = [p \in Projects |-> None]
  /\ images = {}
  /\ tool = [i \in Invs |-> NoTool]
  /\ cancelled = [i \in Invs |-> FALSE]
  /\ server = NoServer

Init ==
  /\ InitInvocations
  /\ apiState \in ApiWorlds
  /\ buckets \in {{}, AllBuckets}
  /\ repos \in {{}, AllRepos}

\* The steps of invocation i after the call.
\* deploy resumes from an await of its first four stages.
ResumeProvision(i) ==
  \/ deploy_initClients(i)
  \/ ensureApisEnabled_begin(i)
  \/ ensureApisEnabled_getService(i)
  \/ ensureApisEnabled_enableService(i)
  \/ ensureApisEnabled_operation(i)
  \/ ensureStorageBucketExists_exists(i)
  \/ ensureStorageBucketExists_create(i)
  \/ zipFiles(i)
  \/ uploadToStorageBucket(i)
  \/ ensureArtifactRegistryRepoExists_get(i)
  \/ ensureArtifactRegistryRepoExists_create(i)

\* deploy resumes from an await of the build or of deployToGke.
ResumeBuildDeploy(i) ==
  \/ triggerCloudBuild_submit(i)
  \/ triggerCloudBuild_operation(i)
  \/ checkGkeClusterExists(i)
  \/ deployToGke_getCredentials(i)
  \/ deployToGke_applyDeployment(i)
  \/ deployToGke_applyService(i)
  \/ deployToGke_getService(i)
  \/ deployToGke_return(i)

Resume(i) == ResumeProvision(i) \/ ResumeBuildDeploy(i)

\* The projects start out alike, so the first invocation is given the first.
FirstCall(i, r) ==
  /\ i = "a" => r.projectId = "p1"
  /\ i = "b" => pc["a"] # "idle"

\* A caller that awaits each deploy before it calls the next.
Next ==
  \E i \in Invs :
    \/ \E r \in Requests :
         /\ \A j \in Invs \ {i} : ~Running(j)
         /\ FirstCall(i, r)
         /\ deploy_call(i, r)
         /\ UNCHANGED tool
    \/ Resume(i)

Spec == Init /\ [][Next]_vars

\* The service names of callers that deploy at the same time: the first
\* keeps the default, the second may name another service.
ConcurrentServiceNames == ServiceNames \cup {"api"}

\* Callers that call deploy while another deploy is in progress, the way
\* the tools of src/tools.js call it: without a progress callback.
NextConcurrent ==
  \E i \in Invs :
    \/ \E r \in Requests, n \in ConcurrentServiceNames :
         /\ r.progressCallback = "absent"
         /\ FirstCall(i, r)
         /\ i = "a" => n \in ServiceNames
         /\ deploy_call(i, [r EXCEPT !.serviceName = n])
         /\ UNCHANGED tool
    \/ Resume(i)

\* Projects that have not used GKE yet: the container API is disabled,
\* there is no bucket and no repository.
InitConcurrent ==
  /\ InitInvocations
  /\ apiState =
       [p \in Projects |->
          [a \in Range(REQUIRED_APIS) |->
             IF a = "container.googleapis.com" THEN "DISABLED" ELSE "ENABLED"]]
  /\ buckets = {}
  /\ repos = {}

SpecConcurrent == InitConcurrent /\ [][NextConcurrent]_vars

\* The file arguments of the tools: the arrays their schemas admit, the
\* empty one among them, and a value that is no array.
PathFileArgs == {NotArray, Array(<<>>)} \cup {Array(Paths(list)) : list \in FileLists}

\* File lists with a Dockerfile, the name in one case or another, and one
\* with a name that has the word but does not end with it.
DockerfileLists ==
  {<<<<"D", "o", "c", "k", "e", "r", "f", "i", "l", "e">>>>,
   <<<<"a", ".", "j", "s">>, <<"a", "p", "p", "/", "D", "O", "C", "K", "E", "R", "F", "I", "L", "E">>>>,
   <<<<"D", "o", "c", "k", "e", "r", "f", "i", "l", "e", ".", "d", "e", "v">>>>}

\* The same as arguments of the tools: arrays of paths, and an array of
\* file objects.
DockerfilePathArgs == {Array(Paths(list)) : list \in DockerfileLists}

DockerfileInlineArgs ==
  {Array(<<FileObject(<<"D", "o", "c", "k", "e", "r", "f", "i", "l", "e">>, <<"c">>)>>)}

InlineFileArgs == {NotArray, Array(<<>>)} \cup {Array(list) : list \in InlineFileLists}

\* The requests of a caller of deploy that subscribes to the progress.
SubscriberRequests ==
  {[r EXCEPT !.progressCallback = cb] :
     r \in Requests, cb \in {"present"} \cup RaisingCallbacks}

\* The server starts; then one request at a time enters: a tool the server
\* has registered is called in slot "a", or deploy is called with a
\* progress callback in slot "b"; the caller may give the request up
\* while it runs.
NextEntry ==
  \/ mcp_server_start
  \/ \E i \in Invs :
       \/ /\ i = "a"
          /\ \A j \in Invs : pc[j] = "idle" /\ tool[j].state = "idle"
          /\ \/ \E a \in ToolArgs({NotArray}) : get_cluster_call(i, a)
             \/ \E a \in ToolArgs({NotArray}) : get_cluster_remote_call(i, a)
             \/ \E a \in ToolArgs({NotArray}) : list_clusters_call(i, a)
             \/ \E a \in ToolArgs(PathFileArgs \cup DockerfilePathArgs) :
                  deploy_local_files(i, a)
             \/ \E a \in ToolArgs(InlineFileArgs \cup DockerfileInlineArgs) :
                  deploy_file_contents(i, a)
       \/ /\ i = "b"
          /\ \A j \in Invs : pc[j] = "idle" /\ tool[j].state = "idle"
          /\ \E r \in SubscriberRequests : deploy_call(i, r) /\ UNCHANGED tool
       \/ get_cluster_return(i)
       \/ list_clusters_return(i)
       \/ deploy_tool_return(i)
       \/ Resume(i)
       \/ cancel(i)

SpecEntry == InitConcurrent /\ [][NextEntry]_vars

\* A server on Google Cloud whose remote tools are called while others
\* run.  The files of deploy_file_contents are objects, so a deploy it
\* starts ends at line 249 at the latest: the awaits of the build and of
\* deployToGke are never reached.
NextRemote ==
  \/ mcp_server_start
  \/ \E i \in Invs :
       \/ \E a \in ToolArgs({NotArray}) : get_cluster_remote_call(i, a)
       \/ \E a \in ToolArgs({NotArray}) : list_clusters_call(i, a)
       \/ \E a \in ToolArgs(InlineFileArgs) : deploy_file_contents(i, a)
       \/ get_cluster_return(i)
       \/ list_clusters_return(i)
       \/ deploy_tool_return(i)
       \/ ResumeProvision(i)

SpecRemote == InitConcurrent /\ [][NextRemote]_vars

(* ------------------------------ claims --------------------------------- *)

\* The stage order the specification of the pipeline states.
StageOrder ==
  <<"EnableAPIs", "EnsureBucket", "PackageSource", "UploadSource",
    "EnsureRegistry", "TriggerBuild", "EnsureCluster", "ApplyManifests">>

StageIndex(stage) == CHOOSE k \in 1..Len(StageOrder) : StageOrder[k] = stage

CallStage(i, n) == StageIndex(StageOf(calls[i][n].fn))

Fns(i) == {calls[i][n].fn : n \in 1..Len(calls[i])}

LastCall(i) == calls[i][Len(calls[i])]

\* C1: in every run of deploy the stages start in the order EnableAPIs,
\* EnsureBucket, PackageSource, UploadSource, EnsureRegistry, TriggerBuild,
\* EnsureCluster, ApplyManifests: the first call belongs to the first stage
\* and every later call to the stage of the call before it or to the next
\* one; and while a long-running operation of a stage is outstanding, the
\* invocation is suspended on that operation, its last call.
C1_StagesInOrder ==
  \A i \in Invs :
    /\ Len(calls[i]) > 0 => CallStage(i, 1) = 1
    /\ \A n \in 2..Len(calls[i]) :
         CallStage(i, n) \in {CallStage(i, n - 1), CallStage(i, n - 1) + 1}
    /\ op[i] # None =>
         /\ pc[i] \in {"operation.promise", "build.promise"}
         /\ LastCall(i).fn = pc[i]

\* A run that went through all eight stages and waited for an enable
\* operation and for the build on its way.
C1_Witness ==
  \E i \in Invs :
    /\ pc[i] = "done"
    /\ {StageOf(f) : f \in Fns(i)} = Range(StageOrder)
    /\ {"operation.promise", "build.promise"} \subseteq Fns(i)

\* C2: fail-fast.  Once a call of stage k has failed, deploy has ended with
\* an error and without a result, the failed call is the last call the
\* invocation ever made, and nothing of the invocation changes afterwards.
C2_FailFast ==
  /\ [](\A i \in Invs :
          cause[i] # NoError =>
            /\ pc[i] = "failed"
            /\ error[i] # NoError
            /\ result[i] = NoResult
            /\ \A n \in 1..Len(calls[i]) : CallStage(i, n) <= CallStage(i, Len(calls[i])))
  /\ [][\A i \in Invs :
          pc[i] = "failed" =>
            /\ pc'[i] = "failed"
            /\ calls'[i] = calls[i]
            /\ result'[i] = NoResult
            /\ error'[i] = error[i]]_vars

\* A run that failed in the upload stage with a remote error.
C2_Witness ==
  \E i \in Invs :
    /\ pc[i] = "failed"
    /\ cause[i].code \in OtherCodes
    /\ StageOf(LastCall(i).fn) = "UploadSource"

PreconditionError(clusterId) ==
  Error(<<"GKE cluster ", clusterId, " does not exist. Please create it first.">>)

\* C3: when the cluster read reports NOT_FOUND, deploy ends with the error
\* 'GKE cluster <id> does not exist. Please create it first.', which no
\* other failure produces, and neither get-credentials nor kubectl apply
\* nor kubectl get service is ever run.
C3_Precondition ==
  \A i \in Invs :
    /\ (pc[i] = "failed" /\ LastCall(i).fn = "getCluster" /\ cause[i].code = NOT_FOUND) =>
         /\ error[i] = PreconditionError(req[i].clusterId)
         /\ req[i].clusterId \in Range(error[i].message)
         /\ Fns(i) \cap {"get-credentials", "kubectl apply", "kubectl get service"} = {}
    /\ (pc[i] = "failed" /\ error[i] = PreconditionError(req[i].clusterId)) =>
         (LastCall(i).fn = "getCluster" /\ cause[i].code = NOT_FOUND)

C3_Witness ==
  \E i \in Invs :
    /\ pc[i] = "failed"
    /\ LastCall(i).fn = "getCluster"
    /\ cause[i].code = NOT_FOUND

\* The enableService calls the invocation has made for the API.
EnableCalls(i, api) ==
  {n \in 1..Len(calls[i]) :
     /\ calls[i][n].fn = "enableService"
     /\ calls[i][n].arg = serviceResource(req[i].projectId, api)}

\* The invocation has gone on past the k-th required API.
PastApi(i, k) ==
  \E n \in 1..Len(calls[i]) :
    IF k < Len(REQUIRED_APIS)
    THEN /\ calls[i][n].fn = "getService"
         /\ calls[i][n].arg = serviceResource(req[i].projectId, REQUIRED_APIS[k + 1])
    ELSE calls[i][n].fn = "bucket.exists"

\* C4: ensureApisEnabled calls enableService only for an API whose state is
\* not ENABLED when it is read; and once an invocation has completed the
\* ensure step for a project, all required APIs of the project are enabled
\* and stay so, and an invocation that runs the step next for the same
\* project makes no enableService call.
C4_IdempotentEnsureApis ==
  /\ [][\A i \in Invs :
          (pc[i] = "getService" /\ pc'[i] = "enableService") =>
            apiState[req[i].projectId][REQUIRED_APIS[apiIdx[i]]] # "ENABLED"]_vars
  /\ [](\A i \in Invs :
          PastApi(i, Len(REQUIRED_APIS)) =>
            /\ \A k \in 1..Len(REQUIRED_APIS) :
                 apiState[req[i].projectId][REQUIRED_APIS[k]] = "ENABLED"
            /\ \A j \in Invs \ {i} :
                 (~Running(i) /\ j = "b" /\ pc[j] # "idle"
                    /\ req[j].projectId = req[i].projectId) =>
                   "enableService" \notin Fns(j))

\* The first run enabled an API; the second run, for the same project, has
\* completed the ensure step as well.
C4_Witness ==
  /\ req["a"].projectId = req["b"].projectId
  /\ "enableService" \in Fns("a")
  /\ PastApi("a", Len(REQUIRED_APIS))
  /\ PastApi("b", Len(REQUIRED_APIS))

\* C5: an invocation calls enableService at most once per API; when the
\* read of a disabled API succeeds, the call that follows is enableService
\* for that API; and when the
\* invocation has gone on past an API, to the next API or to the bucket,
\* the API is enabled: the enable operation, if one was started, has been
\* awaited (its promise is among the calls) and has completed.
C5_EnableOnceAndAwaited ==
  /\ [](\A i \in Invs : \A k \in 1..Len(REQUIRED_APIS) :
          LET api == REQUIRED_APIS[k] IN
          /\ Cardinality(EnableCalls(i, api)) <= 1
          /\ PastApi(i, k) =>
               /\ apiState[req[i].projectId][api] = "ENABLED"
               /\ EnableCalls(i, api) # {} =>
                    \E n \in 1..Len(calls[i]) :
                      /\ calls[i][n].fn = "operation.promise"
                      /\ calls[i][n].arg = serviceResource(req[i].projectId, api))
  /\ [][\A i \in Invs :
          (/\ pc[i] = "getService"
           /\ calls'[i] # calls[i]
           /\ apiState[req[i].projectId][REQUIRED_APIS[apiIdx[i]]] = "DISABLED") =>
            (/\ pc'[i] = "enableService"
             /\ Cardinality(EnableCalls(i, REQUIRED_APIS[apiIdx[i]])') = 1)]_vars

\* Scenario B: an API was disabled, enableService was called for it, and
\* the invocation has gone on after the operation completed.
C5_Witness ==
  \E i \in Invs : \E k \in 1..Len(REQUIRED_APIS) :
    /\ Cardinality(EnableCalls(i, REQUIRED_APIS[k])) = 1
    /\ PastApi(i, k)

\* Scenario A for invocation i: service name "app"; when deploy was called
\* all required APIs were enabled and the bucket and the repository existed;
\* the run succeeded, and kubectl printed the address 198.51.100.7.
ScenarioA(i) ==
  /\ pc[i] = "done"
  /\ req[i].serviceName = "app"
  /\ \A a \in Range(REQUIRED_APIS) : before[i].apis[a] = "ENABLED"
  /\ before[i].bucket
  /\ before[i].repo
  /\ events[i][Len(events[i])] =
       ProgressEvent("info",
         <<"Deployment successful! Service available at: http://", "198.51.100.7">>)

C7_OwnClient ==
  \A i \in Invs : \A n \in 1..Len(calls[i]) :
    calls[i][n].fn \in {"getService", "enableService", "operation.promise", "getCluster"} =>
      calls[i][n].client = req[i].projectId

\* C8: an invocation that waits for a long-running operation (the enable
\* operation, the build) can always go on: by the operation completing or
\* failing, or else by a timeout.
C8_PollTerminates ==
  \A i \in Invs :
    pc[i] \in {"operation.promise", "build.promise"} => ENABLED Resume(i)

\* C9: a success result carries a URL built from a non-empty address.
C9_EndpointAssigned ==
  \A i \in Invs :
    pc[i] = "done" =>
      /\ Len(result[i].url) = 2
      /\ result[i].url[1] = "http://"
      /\ result[i].url[2] # ""

\* The words by which the messages of gke-deploy.js refer to a stage.
StageWords(stage) ==
  CASE stage = "EnableAPIs" -> {"Failed to ensure API ["}
    [] stage = "EnsureCluster" -> {"Error checking GKE cluster "}
    [] stage = "ApplyManifests" ->
         {"Error deploying to GKE: ", "gcloud container clusters get-credentials ",
          "' | kubectl apply -f -", "kubectl get service "}
    [] OTHER -> {stage}

\* The remote detail of the error a failed call gave: the end of its message.
DetailOf(e) == e.message[Len(e.message)]

\* C10: when a call of stage k fails with remote detail d, the error deploy
\* rejects with names stage k and carries d.
C10_ErrorNamesStageAndDetail ==
  \A i \in Invs :
    (pc[i] = "failed" /\ cause[i].code # 0 /\ cause[i].code # NOT_FOUND) =>
      /\ Range(error[i].message) \cap StageWords(StageOf(LastCall(i).fn)) # {}
      /\ DetailOf(cause[i]) \in Range(error[i].message)

\* The events the invocation has logged about the existence of its cluster.
AbsenceEvent(i) ==
  ProgressEvent("info", <<"GKE cluster ", req[i].clusterId, " does not exist.">>)

ReadErrorEvent(i) ==
  ProgressEvent("error",
    <<"Error checking GKE cluster ", req[i].clusterId, ": ">> \o cause[i].message)

\* A cluster read of deploy has failed with the code.
ClusterReadFailed(i, codes) ==
  /\ pc[i] = "failed"
  /\ Len(calls[i]) > 0
  /\ LastCall(i).fn = "getCluster"
  /\ cause[i].code \in codes

\* C11: a cluster read that fails with code 5 is taken for absence:
\* checkGkeClusterExists logs 'does not exist' at severity info and no read
\* error, and getCluster returns null to the handler of get_cluster, which
\* catches nothing and answers 'not found'.  A read that fails with another
\* code is never taken for absence: checkGkeClusterExists logs the read
\* error and deploy does not end with the error of a missing cluster, and
\* getCluster throws the error of the read to the handler, which answers
\* with its message.
C11_NotFoundIsAbsence ==
  \A i \in Invs :
    /\ ClusterReadFailed(i, {NOT_FOUND}) =>
         /\ AbsenceEvent(i) \in Range(events[i])
         /\ ReadErrorEvent(i) \notin Range(events[i])
    /\ ClusterReadFailed(i, OtherCodes) =>
         /\ ReadErrorEvent(i) \in Range(events[i])
         /\ AbsenceEvent(i) \notin Range(events[i])
         /\ error[i] # PreconditionError(req[i].clusterId)
    /\ (tool[i].name = "get_cluster" /\ tool[i].reply.code = NOT_FOUND) =>
         /\ tool[i].value = "null"
         /\ tool[i].caught = NoError
         /\ tool[i].text[1] = "Cluster "
    /\ (tool[i].name = "get_cluster" /\ tool[i].reply.code \in OtherCodes) =>
         /\ tool[i].value # "null"
         /\ tool[i].caught = tool[i].reply
         /\ tool[i].text[1] = "Error getting cluster "
         /\ tool[i].text[Len(tool[i].text)] = DetailOf(tool[i].reply)

\* The read of get_cluster has failed with a code other than 5.
C11_Witness ==
  \E i \in Invs :
    /\ tool[i].name = "get_cluster"
    /\ tool[i].state = "returned"
    /\ tool[i].reply.code \in OtherCodes

\* The functions of the container client that manage the life of a cluster
\* (createCluster and deleteCluster of gke-clusters.js call them).
ClusterLifecycleFns == {"createCluster", "deleteCluster"}

\* C12: no invocation of deploy ever calls createCluster or deleteCluster,
\* whatever the cluster read gave: the only call it makes through the
\* container client is getCluster, once.
C12_NeverCreatesCluster ==
  \A i \in Invs :
    /\ Fns(i) \cap ClusterLifecycleFns = {}
    /\ Cardinality({n \in 1..Len(calls[i]) : calls[i][n].fn = "getCluster"}) <= 1
    /\ \A n \in 1..Len(calls[i]) :
         StageOf(calls[i][n].fn) = "EnsureCluster" => calls[i][n].fn = "getCluster"

\* One run has ended on a missing cluster, the next has found it and has
\* deployed.
C12_Witness ==
  /\ ClusterReadFailed("a", {NOT_FOUND})
  /\ pc["b"] = "done"

\* What the stages the invocation has completed have produced is there.
EffectsInPlace(i) ==
  LET r == req[i] IN
  /\ \A k \in 1..Len(REQUIRED_APIS) :
       PastApi(i, k) => apiState[r.projectId][REQUIRED_APIS[k]] = "ENABLED"
  /\ "zipFiles" \in Fns(i) => bucketName(r.projectId) \in buckets
  /\ "getRepository" \in Fns(i) => objects[r.projectId] # None
  /\ "createBuild" \in Fns(i) =>
       repoUrl(r.projectId, r.region, repoName(r.serviceName)) \in repos
  /\ "getCluster" \in Fns(i) => targetImageUrl(r) \in images

\* Nothing that exists remotely is taken away.
RemoteKept ==
  /\ \A p \in Projects : \A a \in Range(REQUIRED_APIS) :
       apiState[p][a] = "ENABLED" => apiState'[p][a] = "ENABLED"
  /\ buckets \subseteq buckets'
  /\ \A p \in Projects : objects[p] # None => objects'[p] # None
  /\ repos \subseteq repos'
  /\ images \subseteq images'

\* C13: no rollback.  When deploy has failed, what its completed stages
\* have produced (enabled APIs, the bucket, the uploaded object, the
\* repository, the image) is in place; the step in which an invocation
\* fails changes nothing remote, and no step ever takes away anything
\* remote.
C13_NoRollback ==
  /\ [](\A i \in Invs : pc[i] = "failed" => EffectsInPlace(i))
  /\ [][/\ RemoteKept
        /\ \A i \in Invs :
             (pc[i] # "failed" /\ pc'[i] = "failed") => UNCHANGED remoteVars]_vars

\* A run that created its bucket and built its image has failed at the
\* cluster read.
C13_Witness ==
  \E i \in Invs :
    /\ pc[i] = "failed"
    /\ "getCluster" \in Fns(i)
    /\ "createBucket" \in Fns(i)
    /\ "enableService" \in Fns(i)
    /\ targetImageUrl(req[i]) \in images

\* C14: the cluster read comes after the build and right before the apply
\* step: the call before getCluster is the wait for the build, which was
\* submitted and has completed (the image is in the registry), and the
\* call after it, if there is one, is get-credentials.  So a run that ends
\* on a missing cluster has submitted its build.
C14_ClusterCheckAfterBuild ==
  \A i \in Invs :
    /\ \A n \in 1..Len(calls[i]) :
         calls[i][n].fn = "getCluster" =>
           /\ n > 2
           /\ calls[i][n - 1].fn = "build.promise"
           /\ calls[i][n - 2].fn = "createBuild"
           /\ targetImageUrl(req[i]) \in images
           /\ n < Len(calls[i]) => calls[i][n + 1].fn = "get-credentials"
    /\ ClusterReadFailed(i, {NOT_FOUND}) => "createBuild" \in Fns(i)

\* A run against a missing cluster has halted, its image built.
C14_Witness ==
  \E i \in Invs :
    /\ ClusterReadFailed(i, {NOT_FOUND})
    /\ "createBuild" \in Fns(i)
    /\ targetImageUrl(req[i]) \in images

\* C15: a progress callback that throws changes nothing of the outcome: a
\* run with such a callback fails only when one of its stages has failed,
\* and then with the error of that stage, never with the callback's.
C15_SubscriberCannotThrowBack ==
  \A i \in Invs :
    (req[i].progressCallback \in RaisingCallbacks /\ pc[i] = "failed") =>
      /\ cause[i] # NoError
      /\ error[i] # CallbackError

\* The words with which the messages of a stage begin.
StageEventWords(stage) ==
  CASE stage = "EnableAPIs" ->
         {"Checking and enabling required APIs...", "API [",
          "Failed to ensure API [", "All required APIs are enabled."}
    [] stage = "EnsureBucket" -> {"Checking if bucket ", "Bucket "}
    [] stage = "PackageSource" -> {"Creating archive of the source files..."}
    [] stage = "UploadSource" -> {"Uploading ", "Uploaded "}
    [] stage = "EnsureRegistry" -> {"Checking if repository ", "Repository "}
    [] stage = "TriggerBuild" ->
         {"Initiating Cloud Build for ", "Cloud Build completed successfully."}
    [] stage = "EnsureCluster" -> {"GKE cluster ", "Error checking GKE cluster "}
    [] stage = "ApplyManifests" ->
         {"Getting credentials for cluster ", "Deploying ",
          "Deployment successful! Service available at: http://"}

\* The invocation has started stage k, and has started a later stage or
\* has ended.
StageOver(i, k) ==
  /\ \E n \in 1..Len(calls[i]) : CallStage(i, n) = k
  /\ \/ pc[i] \in {"done", "failed"}
     \/ \E n \in 1..Len(calls[i]) : CallStage(i, n) > k

\* C16: of every stage an invocation with a subscriber has started and
\* left, the subscriber has received at least one event.
C16_EventPerStage ==
  \A i \in Invs : \A k \in 1..Len(StageOrder) :
    (pc[i] # "idle" /\ req[i].progressCallback # "absent" /\ StageOver(i, k)) =>
      \E n \in 1..Len(Delivered(i)) :
        Delivered(i)[n].data[1] \in StageEventWords(StageOrder[k])

\* A run with a subscriber has gone through all eight stages.
C16_Witness ==
  \E i \in Invs :
    /\ pc[i] = "done"
    /\ req[i].progressCallback = "present"
    /\ \A k \in 1..Len(StageOrder) : StageOver(i, k)

\* C17: file lists of both shapes, paths and {filename, content} objects,
\* are deployed alike: no run fails on the shape of its file entries, that
\* is with the TypeError of a method the entries do not have.
C17_BothShapesDeploy ==
  \A i \in Invs :
    pc[i] = "failed" => error[i] # TypeError

\* The arguments of a deploy tool are malformed: the project is missing
\* (where it is an argument: the remote tool takes none), the files are no
\* array or an empty one, or a file object has no content.
Malformed(name, a) ==
  \/ name = "deploy_local_files" /\ a.project = Undefined
  \/ ~a.files.isArray
  \/ Len(a.files.items) = 0
  \/ \E n \in 1..Len(a.files.items) :
       a.files.items[n].type = "object" /\ a.files.items[n].content = <<>>

C19_ForwardsStageError ==
  \A i \in Invs :
    pc[i] = "failed" => error[i] = raised[i]

\* The awaits at which deploy waits for a long-running operation or for
\* the external address.
PollBoundaries == {"operation.promise", "build.promise", "getServiceIp"}

\* C20: an invocation the caller has given up while it waits at a poll
\* boundary leaves the wait only by failing, and makes no further call.
C20_CancelInterruptsWait ==
  [][\A i \in Invs :
       (cancelled[i] /\ pc[i] \in PollBoundaries /\ pc'[i] # pc[i]) =>
         (pc'[i] = "failed" /\ calls'[i] = calls[i])]_vars

\* The n-th call of the invocation applies a descriptor: the deployment's
\* right after get-credentials, the service's after that.
AppliesDeployment(i, n) ==
  /\ calls[i][n].fn = "kubectl apply"
  /\ calls[i][n - 1].fn = "get-credentials"

AppliesService(i, n) ==
  /\ calls[i][n].fn = "kubectl apply"
  /\ calls[i][n - 1].fn = "kubectl apply"

\* C21: the descriptors depend on the service name and the image reference
\* only: two invocations with the same service name and image apply the
\* same texts, and the texts an invocation has applied are those the
\* generation gives for its inputs in any later state.
C21_ManifestsDeterministic ==
  \A i \in Invs : \A n \in 2..Len(calls[i]) :
    calls[i][n].fn = "kubectl apply" =>
      LET r == req[i] IN
      /\ AppliesDeployment(i, n) =>
           calls[i][n].arg = applyCmd(deploymentYaml(r.serviceName, targetImageUrl(r)))
      /\ AppliesService(i, n) =>
           calls[i][n].arg = applyCmd(serviceYaml(r.serviceName))
      /\ \A j \in Invs \ {i} : \A m \in 2..Len(calls[j]) :
           (/\ calls[j][m].fn = "kubectl apply"
            /\ req[j].serviceName = r.serviceName
            /\ targetImageUrl(req[j]) = targetImageUrl(r)
            /\ AppliesDeployment(i, n) = AppliesDeployment(j, m)) =>
             calls[i][n].arg = calls[j][m].arg

\* Two invocations with the same service name and image have each applied
\* both descriptors.
C21_Witness ==
  /\ targetImageUrl(req["a"]) = targetImageUrl(req["b"])
  /\ \A i \in Invs : \E n \in 2..Len(calls[i]) : AppliesService(i, n)

\* The commands deployToGke runs for request r, in the order of the code.
ApplySteps(r) ==
  <<[fn |-> "get-credentials", arg |-> getCredentialsCmd(r)],
    [fn |-> "kubectl apply",
     arg |-> applyCmd(deploymentYaml(r.serviceName, targetImageUrl(r)))],
    [fn |-> "kubectl apply", arg |-> applyCmd(serviceYaml(r.serviceName))],
    [fn |-> "kubectl get service", arg |-> getServiceCmd(r.serviceName)]>>

ApplyFns == {"get-credentials", "kubectl apply", "kubectl get service"}

\* The calls of invocation i from its get-credentials call on.
ApplyCalls(i) ==
  IF "get-credentials" \in Fns(i)
  THEN LET first == CHOOSE n \in 1..Len(calls[i]) : calls[i][n].fn = "get-credentials"
       IN SubSeq(calls[i], first, Len(calls[i]))
  ELSE <<>>

\* The step appends a call of fn to the calls of invocation i.
Issues(i, fn) ==
  /\ Len(calls'[i]) = Len(calls[i]) + 1
  /\ calls'[i][Len(calls'[i])].fn = fn

\* C22: the commands of the apply stage run in the order get-credentials,
\* apply of the deployment, apply of the service, query of the address,
\* and none runs without the ones before it; each is started by the step
\* in which the one before it has completed without error; the step in
\* which one of them fails starts nothing, and a failed invocation makes
\* no further call.
C22_ApplyStepOrder ==
  /\ [](\A i \in Invs :
         /\ \A n \in 1..Len(calls[i]) :
              calls[i][n].fn \in ApplyFns => "get-credentials" \in Fns(i)
         /\ Len(ApplyCalls(i)) <= Len(ApplySteps(req[i]))
         /\ \A k \in 1..Len(ApplyCalls(i)) :
              /\ ApplyCalls(i)[k].fn = ApplySteps(req[i])[k].fn
              /\ ApplyCalls(i)[k].arg = ApplySteps(req[i])[k].arg)
  /\ [][\A i \in Invs :
          /\ Issues(i, "kubectl apply") =>
               /\ pc[i] \in {"get-credentials", "applyDeployment"}
               /\ pc'[i] # "failed"
          /\ Issues(i, "kubectl get service") =>
               /\ pc[i] = "applyService"
               /\ pc'[i] # "failed"
          /\ (pc[i] \in {"get-credentials", "applyDeployment", "applyService", "getServiceIp"}
               /\ pc'[i] = "failed") => calls'[i] = calls[i]
          /\ pc[i] = "failed" => calls'[i] = calls[i]]_vars

\* One invocation has run all four commands; another has failed at the
\* apply of the deployment and has run nothing after it.
C22_Witness ==
  /\ \E i \in Invs : Len(ApplyCalls(i)) = Len(ApplySteps(req[i])) /\ pc[i] = "done"
  /\ \E i \in Invs :
       /\ pc[i] = "failed"
       /\ Len(ApplyCalls(i)) > 1
       /\ cause[i] = ExecError(ApplySteps(req[i])[Len(ApplyCalls(i))].arg, "d1")
       /\ LastCall(i).fn = "kubectl apply"
       /\ Len(ApplyCalls(i)) < Len(ApplySteps(req[i]))

RemoteTools == {"list_clusters", "get_cluster", "deploy_file_contents"}

\* Nothing of project p has been changed or created since the start.
Untouched(p) ==
  /\ apiState[p]["container.googleapis.com"] = "DISABLED"
  /\ bucketName(p) \notin buckets
  /\ objects[p] = None
  /\ \A u \in repos : \A n \in 1..Len(u) : u[n] # p

\* The caller of the tool in slot i has named a project other than the
\* server's.
NamesOtherProject(i) ==
  /\ tool[i].name \in RemoteTools
  /\ tool[i].args.project \in Projects \ {server.currentProject}

\* C23: on a server that has registered the remote tools, the project was
\* read from the metadata server when the tools were registered and does
\* not change afterwards; whatever project the caller of a tool names,
\* listClusters, getCluster and deploy are called with the project of the
\* server, every remote call of such a deploy goes through a client of
\* that project and names its resources, and nothing of any other project
\* is touched.
C23_RemoteConfinedToServerProject ==
  /\ [](server.mode = "remote" =>
         /\ server.currentProject \in Projects
         /\ \A i \in Invs :
              /\ tool[i].state = "awaiting" => tool[i].project = server.currentProject
              /\ tool[i].project \in {None, server.currentProject}
              /\ pc[i] # "idle" =>
                   /\ tool[i].name = "deploy_file_contents"
                   /\ req[i].projectId = server.currentProject
              /\ \A n \in 1..Len(calls[i]) :
                   /\ calls[i][n].client \in {None, server.currentProject}
                   /\ calls[i][n].fn \in {"bucket.exists", "createBucket"} =>
                        calls[i][n].arg = bucketName(server.currentProject)
                   /\ calls[i][n].fn \in {"getService", "enableService"} =>
                        calls[i][n].arg[2] = server.currentProject
         /\ \A p \in Projects \ {server.currentProject} : Untouched(p))
  /\ [][server # NoServer => server' = server]_vars

\* Two callers that name another project than the server's: the deploy of
\* one has uploaded its source, the cluster read of the other has returned.
C23_Witness ==
  /\ server.mode = "remote"
  /\ \E i \in Invs :
       /\ NamesOtherProject(i)
       /\ tool[i].name = "deploy_file_contents"
       /\ "upload" \in Fns(i)
       /\ bucketName(server.currentProject) \in buckets
  /\ \E i \in Invs :
       /\ NamesOtherProject(i)
       /\ tool[i].name = "get_cluster"
       /\ tool[i].state = "returned"
       /\ tool[i].value = "cluster"

\* Invocations i and j deploy different services to the same project.
OtherServiceSameProject(i, j) ==
  /\ i # j
  /\ pc[i] # "idle"
  /\ pc[j] # "idle"
  /\ req[i].projectId = req[j].projectId
  /\ req[i].serviceName # req[j].serviceName

\* C24: invocations that deploy different services to one project upload
\* to different objects, and while the build of an invocation is being
\* submitted, the object it names as its source holds the archive that
\* this invocation has uploaded.
C24_OwnSourceObject ==
  \A i, j \in Invs :
    OtherServiceSameProject(i, j) =>
      /\ \A n \in 1..Len(calls[i]) : \A m \in 1..Len(calls[j]) :
           (calls[i][n].fn = "upload" /\ calls[j][m].fn = "upload") =>
             calls[i][n].arg # calls[j][m].arg
      /\ pc[i] = "createBuild" => objects[req[i].projectId] = i

\* The arguments of the build that invocation i has submitted.
BuildArgs(i) ==
  calls[i][CHOOSE n \in 1..Len(calls[i]) : calls[i][n].fn = "createBuild"].arg

\* C25: what a stage of an invocation is given is what the stages before
\* it have used or returned.  The source location of the build is the
\* bucket and the object of the upload; the repository the build is given
\* is the one the repository stage has read, and the image is
\* <repository>/<serviceName>:latest; the wait for the build and the
\* deployment manifest name the image the build was asked for.
C25_StageOutputsFlow ==
  \A i \in Invs : \A n \in 1..Len(calls[i]) :
    LET c == calls[i][n] IN
    /\ c.fn = "createBuild" =>
         /\ \E m \in 1..(n - 1) :
              /\ calls[i][m].fn = "upload"
              /\ calls[i][m].arg = c.arg.bucket \o <<"/", c.arg.object>>
         /\ \E m \in 1..(n - 1) :
              /\ calls[i][m].fn = "getRepository"
              /\ calls[i][m].arg = c.arg.targetRepoName
         /\ c.arg.image =
              c.arg.targetRepoName \o <<"/", req[i].serviceName, ":", IMAGE_TAG>>
    /\ c.fn = "build.promise" => c.arg = BuildArgs(i).image
    /\ (n > 1 /\ AppliesDeployment(i, n)) =>
         c.arg = applyCmd(deploymentYaml(req[i].serviceName, BuildArgs(i).image))

\* An invocation has gone through all its stages.
C25_Witness ==
  \E i \in Invs :
    /\ pc[i] = "done"
    /\ \E n \in 2..Len(calls[i]) : AppliesDeployment(i, n)
    /\ "createBuild" \in Fns(i)
    /\ "upload" \in Fns(i)

\* The name of an entry of a file list.
FileName(file) == IF file.type = "string" THEN file.chars ELSE file.filename

\* The name ends with the letters of 'dockerfile', each in either case.
EndsWithDockerfile(name) ==
  LET lower == <<"d", "o", "c", "k", "e", "r", "f", "i", "l", "e">>
      upper == <<"D", "O", "C", "K", "E", "R", "F", "I", "L", "E">>
  IN /\ Len(name) >= Len(lower)
     /\ \A k \in 1..Len(lower) :
          name[Len(name) - Len(lower) + k] \in {lower[k], upper[k]}

\* Invocation i has come to line 249, where the strategy is selected.
StrategySelected(i) == "createBuild" \in Fns(i) \/ cause[i] = TypeError

\* C26: an invocation that has come to the selection of the strategy has
\* submitted its build, with the Dockerfile strategy if and only if the
\* name of one of its files ends with 'dockerfile' in whatever case.
C26_StrategyByFileName ==
  \A i \in Invs :
    StrategySelected(i) =>
      /\ "createBuild" \in Fns(i)
      /\ BuildArgs(i).hasDockerfile =
           (\E n \in 1..Len(req[i].files) : EndsWithDockerfile(FileName(req[i].files[n])))

\* The two manifests of service name n with image img agree with each
\* other: one selector everywhere, one container port, both labelled.
DescriptorsConsistent(n, img) ==
  LET d == deployment(n, img)
      s == service(n)
      containers == d.spec.template.spec.containers
  IN /\ s.spec.selector = d.spec.template.metadata.labels
     /\ s.spec.selector = d.spec.selector.matchLabels
     /\ DOMAIN s.spec.selector = {"app"}
     /\ s.spec.selector["app"] = <<n>>
     /\ Len(s.spec.ports) = 1
     /\ s.spec.ports[1].port = 80
     /\ Len(containers) = 1
     /\ Len(containers[1].ports) = 1
     /\ s.spec.ports[1].targetPort = containers[1].ports[1].containerPort
     /\ containers[1].ports[1].containerPort = 8080
     /\ containers[1].image = img
     /\ "created-by" \in DOMAIN d.metadata.labels
     /\ "created-by" \in DOMAIN s.metadata.labels
     /\ d.spec.replicas = 1
     /\ s.spec.type = "LoadBalancer"
     /\ s.metadata.name = <<n, "-service">>

\* C27: the manifests an invocation applies are the texts of descriptors
\* that are consistent for its service name (selector of the service =
\* labels of the pod template = selector of the deployment = app:
\* serviceName; port 80 to the container's port 8080; created-by on both;
\* one replica, one container), and the service whose address it then
\* asks for bears the name of the service it has applied.
C27_DescriptorsConsistent ==
  \A i \in Invs : \A n \in 2..Len(calls[i]) :
    LET name == req[i].serviceName
        img == targetImageUrl(req[i])
    IN /\ AppliesDeployment(i, n) =>
            /\ calls[i][n].arg = applyCmd(deploymentYaml(name, img))
            /\ DescriptorsConsistent(name, img)
       /\ AppliesService(i, n) =>
            /\ calls[i][n].arg = applyCmd(serviceYaml(name))
            /\ DescriptorsConsistent(name, img)
       /\ calls[i][n].fn = "kubectl get service" =>
            /\ AppliesService(i, n - 1)
            /\ SubSeq(calls[i][n].arg, 2, 1 + Len(service(name).metadata.name))
                 = service(name).metadata.name

\* Two invocations for different service names have each applied their
\* manifests and asked for the address of their service.
C27_Witness ==
  /\ req["a"].serviceName # req["b"].serviceName
  /\ \A i \in Invs : "kubectl get service" \in Fns(i)

\* The event deploy's catch block reports for the error e.
FailureEvent(e) == ProgressEvent("error", <<"Deployment failed: ">> \o e.message)

\* Invocation i has a subscriber.
Subscribed(i) == pc[i] # "idle" /\ req[i].progressCallback # "absent"

\* C28: an invocation with a subscriber that has failed has passed the
\* event 'Deployment failed: <message>' at level error to the subscriber,
\* in the step in which it rejects and as the last thing of it, and
\* passes no event afterwards; an invocation that has succeeded has
\* passed no event at level error.
C28_FailureEventLast ==
  /\ [](\A i \in Invs :
         Subscribed(i) =>
           /\ pc[i] = "failed" =>
                /\ Len(Delivered(i)) > 0
                /\ Delivered(i)[Len(Delivered(i))] = FailureEvent(raised[i])
           /\ pc[i] = "done" =>
                \A n \in 1..Len(Delivered(i)) : Delivered(i)[n].level # "error")
  /\ [][\A i \in Invs :
          /\ (pc[i] # "failed" /\ pc'[i] = "failed") =>
               /\ Len(events'[i]) > Len(events[i])
               /\ events'[i][Len(events'[i])].level = "error"
               /\ events'[i][Len(events'[i])].data[1] = "Deployment failed: "
          /\ pc[i] \in {"failed", "done"} => events'[i] = events[i]]_vars

\* A run with a subscriber has failed at the cluster read: the event of
\* the inner handler, at level error, then the event of deploy's catch.
C28_Witness ==
  \E i \in Invs :
    /\ Subscribed(i)
    /\ pc[i] = "failed"
    /\ Len(Delivered(i)) > 2
    /\ Delivered(i)[Len(Delivered(i)) - 1].level = "error"
    /\ Delivered(i)[Len(Delivered(i))] = FailureEvent(raised[i])
    /\ "getCluster" \in Fns(i)

====
